---------------------------- MODULE Spec2Model ----------------------------
(***************************************************************************)
(* Model of lib/schedule_scraper.py: the BracketTeam schedule exporter.    *)
(*                                                                         *)
(* One run of run(event_ref, out_csv, token) is modelled as a sequential   *)
(* state machine.  The upstream HTTP server is the environment: every      *)
(* session.get picks its outcome (a transport error, or a status and a     *)
(* body) nondeterministically.                                             *)
(*                                                                         *)
(* Python values are tagged records: [t |-> "None"], [t |-> "str", v],     *)
(* [t |-> "int", v], [t |-> "list", v |-> sequence] and                    *)
(* [t |-> "dict", v |-> function from keys to values]; a str's v is the    *)
(* sequence of its characters.                                             *)
(* Durations are counted in thousandths of a second (1.5 s = 1500).        *)
(***************************************************************************)
EXTENDS Integers, Sequences, FiniteSets, TLC

(***************************************************************************)
(* Program constants (lines 12-19).                                        *)
(***************************************************************************)
BASE_PUBLIC == "get-public-tournament"
BASE_SCHEDULE == "get-division-schedule"
MATCHES_PER_PAGE == 20
SLEEP_TIME == 500
MAX_RETRIES == 3
BACKOFF == 1500
\* The unit of BACKOFF and SLEEP_TIME: 1.5 is written 1500, 0.5 is 500.
Milli == 1000
\* The hard-coded fallback of line 230.
DEFAULT_TOKEN == <<"f", "B", "0", "S">>

(***************************************************************************)
(* Bounds of the model.                                                    *)
(***************************************************************************)
\* Upstream lists at most this many division records.
MaxDivisions == 2
\* Upstream holds at most this many full pages of matches, all divisions
\* together.
MaxFullPages == 3
\* An event reference is made of at most this many pieces.
MaxTokens == 4
\* first_nonempty is given at most this many candidates.
MaxCandidates == 4

(***************************************************************************)
(* Python values.                                                          *)
(***************************************************************************)
None == [t |-> "None"]
PyStr(s) == [t |-> "str", v |-> s]
PyInt(n) == [t |-> "int", v |-> n]
PyList(s) == [t |-> "list", v |-> s]
PyDict(f) == [t |-> "dict", v |-> f]
EmptyDict == PyDict(<<>>)
EmptyList == PyList(<<>>)

\* bool(x): None, "", 0, [] and {} are false.
Truthy(x) ==
    CASE x.t = "None" -> FALSE
      [] x.t = "str" -> Len(x.v) > 0
      [] x.t = "int" -> x.v # 0
      [] x.t = "list" -> Len(x.v) > 0
      [] x.t = "dict" -> DOMAIN x.v # {}

\* a or b
Or(a, b) == IF Truthy(a) THEN a ELSE b

\* d.get(k, default) on a dict d
Get(d, k, default) == IF k \in DOMAIN d.v THEN d.v[k] ELSE default

(***************************************************************************)
(* Strings.                                                                *)
(***************************************************************************)
Digits == <<"0", "1", "2", "3", "4", "5", "6", "7", "8", "9">>
IsDigit(c) == \E i \in 1..10 : Digits[i] = c
DigitValue(c) == (CHOOSE i \in 1..10 : Digits[i] = c) - 1
IsSpace(c) == c \in {" ", "\t", "\n"}

\* int(s) of a sequence of decimal digits
RECURSIVE IntOfDigits(_)
IntOfDigits(ds) ==
    IF ds = <<>> THEN 0
    ELSE 10 * IntOfDigits(SubSeq(ds, 1, Len(ds) - 1)) + DigitValue(ds[Len(ds)])

\* str(n) for n >= 0
RECURSIVE StrOfInt(_)
StrOfInt(n) ==
    IF n < 10 THEN <<Digits[n + 1]>>
    ELSE StrOfInt(n \div 10) \o <<Digits[(n % 10) + 1]>>

\* s.strip()
RECURSIVE LStrip(_)
LStrip(s) == IF s # <<>> /\ IsSpace(s[1]) THEN LStrip(Tail(s)) ELSE s
RECURSIVE RStrip(_)
RStrip(s) ==
    IF s # <<>> /\ IsSpace(s[Len(s)]) THEN RStrip(SubSeq(s, 1, Len(s) - 1)) ELSE s
Strip(s) == RStrip(LStrip(s))

\* re.fullmatch(r"\d+", s)
AllDigits(s) == Len(s) > 0 /\ \A i \in 1..Len(s) : IsDigit(s[i])

(***************************************************************************)
(* parse_event_id (lines 23-33).                                           *)
(***************************************************************************)
EventPrefix == <<"/", "e", "v", "e", "n", "t", "/">>

\* The length of the run of digits of s that starts at index j.
RECURSIVE DigitRun(_, _)
DigitRun(s, j) == IF j <= Len(s) /\ IsDigit(s[j]) THEN 1 + DigitRun(s, j + 1) ELSE 0

\* r"/event/(\d+)/" matches s at index i.
EventMatchAt(s, i) ==
    /\ i + Len(EventPrefix) - 1 <= Len(s)
    /\ SubSeq(s, i, i + Len(EventPrefix) - 1) = EventPrefix
    /\ LET k == DigitRun(s, i + Len(EventPrefix))
       IN  /\ k >= 1
           /\ i + Len(EventPrefix) + k <= Len(s)
           /\ s[i + Len(EventPrefix) + k] = "/"

\* re.search: the leftmost match, group(1)
EventSearch(s) ==
    LET hits == {i \in 1..Len(s) : EventMatchAt(s, i)}
    IN  IF hits = {} THEN [found |-> FALSE, group1 |-> <<>>]
        ELSE LET i == CHOOSE h \in hits : \A g \in hits : h <= g
                 j == i + Len(EventPrefix)
             IN  [found |-> TRUE, group1 |-> SubSeq(s, j, j + DigitRun(s, j) - 1)]

\* Mutant of parse_event_id: 0 is returned where the code raises.
parse_event_id_Lenient(s) ==
    LET m == EventSearch(s)
    IN  IF m.found THEN [raised |-> FALSE, value |-> IntOfDigits(m.group1)]
        ELSE IF AllDigits(Strip(s))
             THEN [raised |-> FALSE, value |-> IntOfDigits(Strip(s))]
             ELSE [raised |-> FALSE, value |-> 0]

\* Mutant of parse_event_id: fullmatch on s instead of s.strip().
parse_event_id_NoStrip(s) ==
    LET m == EventSearch(s)
    IN  IF m.found THEN [raised |-> FALSE, value |-> IntOfDigits(m.group1)]
        ELSE IF AllDigits(s)
             THEN [raised |-> FALSE, value |-> IntOfDigits(s)]
             ELSE [raised |-> TRUE, value |-> 0]

\* int(s) accepts surrounding whitespace, so int(s) = int(s.strip()) here.
parse_event_id(s) ==
    LET m == EventSearch(s)
    IN  IF m.found THEN [raised |-> FALSE, value |-> IntOfDigits(m.group1)]
        ELSE IF AllDigits(Strip(s))
             THEN [raised |-> FALSE, value |-> IntOfDigits(Strip(s))]
             ELSE [raised |-> TRUE, value |-> 0]

(***************************************************************************)
(* get_json (lines 44-78).                                                 *)
(*                                                                         *)
(* A frame holds the locals of one call: attempt, delay; status is         *)
(* "running" inside the while loop and "returned" after a return, ret is   *)
(* the returned value.  slept lists the arguments of the call's            *)
(* time.sleep calls and last is the outcome of its latest session.get.     *)
(***************************************************************************)
\* The value of last before the first session.get.
NoOutcome == [kind |-> "none", status_code |-> 0, parses |-> FALSE]

\* Mutant of NewCall: attempt = 1 at the start, one attempt of the call's
\* budget is gone before its first request.
NewCall_AttemptFromOne(url, params) ==
    [url |-> url, params |-> params, attempt |-> 1, delay |-> BACKOFF,
     slept |-> <<>>, last |-> NoOutcome, status |-> "running", ret |-> None]

\* Lines 49-50: the locals at the start of a call.
NewCall(url, params) ==
    [url |-> url, params |-> params, attempt |-> 0, delay |-> BACKOFF,
     slept |-> <<>>, last |-> NoOutcome, status |-> "running", ret |-> None]

\* No call yet.
NoCall == [NewCall("", [tournament_id |-> 0]) EXCEPT !.status = "idle"]

\* Outcomes of session.get followed by resp.json(): the transport fails
\* (requests.RequestException), or a response arrives with a status code and
\* a body that parses to json or does not parse.
TransportError == [kind |-> "exc", status_code |-> 0, parses |-> FALSE, json |-> None]
Response(code, parses, json) ==
    [kind |-> "resp", status_code |-> code, parses |-> parses, json |-> json]

\* What the frame's last keeps of an outcome.
OutcomeSeen(o) == [kind |-> o.kind, status_code |-> o.status_code, parses |-> o.parses]

\* Mutant of RetryStatus: every error status is retried.
RetryStatus_AnyError(code) == 400 <= code /\ code < 600

\* Line 56: resp.status_code in (429,) or 500 <= resp.status_code < 600
RetryStatus(code) == code = 429 \/ (500 <= code /\ code < 600)

\* Line 65: resp.ok is false for the statuses raise_for_status raises on.
RespOk(code) == ~(400 <= code /\ code < 600)

\* Mutant of NextDelay: the delay does not grow.
NextDelay_Constant(delay) == delay

\* Lines 59 and 72: delay *= BACKOFF
NextDelay(delay) == (delay * BACKOFF) \div Milli

\* Mutant of RetryOrGiveUp: attempt <= MAX_RETRIES, one retry too many.
RetryOrGiveUp_OneMore(f) ==
    IF f.attempt <= MAX_RETRIES
    THEN [f EXCEPT !.slept = Append(@, f.delay),
                   !.delay = (f.delay * BACKOFF) \div Milli]
    ELSE [f EXCEPT !.status = "returned", !.ret = None]

\* Lines 57-63 and 70-75: sleep and go round again, or give up with None.
RetryOrGiveUp(f) ==
    IF f.attempt < MAX_RETRIES
    THEN [f EXCEPT !.slept = Append(@, f.delay), !.delay = NextDelay(f.delay)]
    ELSE [f EXCEPT !.status = "returned", !.ret = None]

\* Lines 68 and 76-78 with 69-75: resp.json() of a body that does not parse
\* raises the library's JSONDecodeError.  It is a ValueError; in requests
\* 2.27 and later it is a requests.RequestException too, and the except
\* clause of line 69 comes first.
JsonErrorHandler(f, isRequestException) ==
    IF isRequestException THEN RetryOrGiveUp(f)
    ELSE [f EXCEPT !.status = "returned", !.ret = None]

\* Lines 52-78: one round of the while loop on outcome o.
GetJsonRound(f0, o, isRequestException) ==
    LET f == [f0 EXCEPT !.attempt = @ + 1, !.last = OutcomeSeen(o)]
    IN  IF o.kind = "exc" THEN RetryOrGiveUp(f)
        ELSE IF RetryStatus(o.status_code) THEN RetryOrGiveUp(f)
        ELSE IF ~RespOk(o.status_code)
             THEN [f EXCEPT !.status = "returned", !.ret = None]
        ELSE IF ~o.parses THEN JsonErrorHandler(f, isRequestException)
        ELSE [f EXCEPT !.status = "returned", !.ret = o.json]

(***************************************************************************)
(* Field extraction (lines 136-223).  The extractors return the str's      *)
(* characters.                                                             *)
(***************************************************************************)
\* Mutant of first_nonempty: "if isinstance(v, str) and v", whitespace counts.
RECURSIVE first_nonempty_Untrimmed(_)
first_nonempty_Untrimmed(values) ==
    IF values = <<>> THEN <<>>
    ELSE LET v == Head(values)
         IN  IF v.t = "str" /\ v.v # <<>> THEN Strip(v.v)
             ELSE first_nonempty_Untrimmed(Tail(values))

\* Lines 136-140.
RECURSIVE first_nonempty(_)
first_nonempty(values) ==
    IF values = <<>> THEN <<>>
    ELSE LET v == Head(values)
         IN  IF v.t = "str" /\ Strip(v.v) # <<>> THEN Strip(v.v)
             ELSE first_nonempty(Tail(values))

\* Lines 143-151.
RECURSIVE get_nested(_, _, _)
get_nested(cur, path, default) ==
    IF path = <<>> THEN (IF cur.t = "str" THEN cur ELSE default)
    ELSE IF cur.t # "dict" THEN default
    ELSE get_nested(Get(cur, Head(path), None), Tail(path), default)

\* Lines 154-162.
extract_time(m) ==
    first_nonempty(<<Get(m, "start_date_time", None), Get(m, "date", None),
                     Get(m, "start_time", None), Get(m, "start_datetime", None)>>)

\* Lines 165-174.
extract_location(m) ==
    first_nonempty(<<get_nested(m, <<"court", "venue", "name">>, PyStr(<<>>)),
                     Get(m, "venue_name", None),
                     Get(m, "facility_name", None),
                     Get(m, "location", None),
                     get_nested(m, <<"venue", "name">>, PyStr(<<>>)),
                     get_nested(m, <<"facility", "name">>, PyStr(<<>>)),
                     get_nested(m, <<"site", "name">>, PyStr(<<>>))>>)

\* Lines 177-185.
extract_court(m) ==
    first_nonempty(<<get_nested(m, <<"court", "court_name">>, PyStr(<<>>)),
                     Get(m, "court_name", None),
                     Get(m, "court", None),
                     Get(m, "field", None),
                     get_nested(m, <<"court", "name">>, PyStr(<<>>)),
                     get_nested(m, <<"resource", "name">>, PyStr(<<>>))>>)

\* Mutant of ExtractTeam: the flat keys are tried before the nested object.
ExtractTeam_FlatFirst(m, nested, flat) ==
    LET team == Get(m, nested, None)
        v == Or(Get(team, "name", None), Get(team, "team_name", None))
        f == first_nonempty([i \in 1..Len(flat) |-> Get(m, flat[i], None)])
    IN  IF f # <<>> THEN f
        ELSE IF team.t = "dict" /\ v.t = "str" /\ Strip(v.v) # <<>> THEN Strip(v.v)
        ELSE <<>>

\* Lines 203-211 and 215-223: the nested team object, then the flat keys.
ExtractTeam(m, nested, flat) ==
    LET team == Get(m, nested, None)
        v == Or(Get(team, "name", None), Get(team, "team_name", None))
    IN  IF team.t = "dict" /\ v.t = "str" /\ Strip(v.v) # <<>> THEN Strip(v.v)
        ELSE first_nonempty([i \in 1..Len(flat) |-> Get(m, flat[i], None)])

\* Lines 201-211.
extract_home(m) ==
    ExtractTeam(m, "home_team", <<"home_name", "homeTeamName", "team_home_name">>)

\* Lines 214-223.
extract_away(m) ==
    ExtractTeam(m, "away_team", <<"away_name", "awayTeamName", "team_away_name">>)

(***************************************************************************)
(* get_divisions (lines 83-99), after its get_json call has returned ret.  *)
(* A result is [raised, value]: raised when the code raises (x.get on a    *)
(* value that is no dict, iteration over a value that is no list).         *)
(***************************************************************************)
Raised == [raised |-> TRUE, value |-> <<>>]
Returned(v) == [raised |-> FALSE, value |-> v]

\* Line 96: f"Division {div_id}"
DivisionLabel(div_id) ==
    PyStr(<<"D", "i", "v", "i", "s", "i", "o", "n", " ">> \o StrOfInt(div_id.v))

\* Lines 94-98: the loop over the division records.
RECURSIVE DivisionPairs(_)
DivisionPairs(records) ==
    IF records = <<>> THEN Returned(<<>>)
    ELSE LET d == Head(records)
             rest == DivisionPairs(Tail(records))
         IN  IF d.t # "dict" \/ rest.raised THEN Raised
             ELSE LET div_id == Get(d, "id", None)
                      div_name == Or(Or(Get(d, "division_name", None),
                                        Get(d, "name", None)),
                                     DivisionLabel(div_id))
                  IN  IF div_id.t # "None"
                      THEN Returned(<<[id |-> div_id.v, name |-> div_name.v]>>
                                    \o rest.value)
                      ELSE rest

\* Mutant of get_divisions: data = get_json(...) without the "or {}".
get_divisions_NoDefault(ret) ==
    IF ret.t # "dict" THEN Raised
    ELSE LET content == Get(ret, "content", EmptyDict)
             tournament == Get(content, "tournament", EmptyDict)
             divs == Get(tournament, "divisions", EmptyList)
         IN  IF content.t # "dict" THEN Raised
             ELSE IF tournament.t # "dict" THEN Raised
             ELSE IF divs.t # "list" THEN Raised
             ELSE DivisionPairs(divs.v)

\* Lines 89-99.
get_divisions(ret) ==
    LET data == Or(ret, EmptyDict)
        content == Get(data, "content", EmptyDict)
        tournament == Get(content, "tournament", EmptyDict)
        divs == Get(tournament, "divisions", EmptyList)
    IN  IF data.t # "dict" THEN Raised
        ELSE IF content.t # "dict" THEN Raised
        ELSE IF tournament.t # "dict" THEN Raised
        ELSE IF divs.t # "list" THEN Raised
        ELSE DivisionPairs(divs.v)

(***************************************************************************)
(* iter_matches (lines 102-131).                                           *)
(***************************************************************************)
\* Lines 108-121: the query of one page.
ScheduleParams(tournament, division, page) ==
    [tournament_id |-> tournament, division_id |-> division, page |-> page,
     matches_per_page |-> MATCHES_PER_PAGE]

\* Mutant of PageMatches: data = get_json(...) without the "or {}".
PageMatches_NoDefault(ret) ==
    IF ret.t # "dict" THEN Raised
    ELSE LET content == Or(Get(ret, "content", EmptyDict), EmptyDict)
             matches == Or(Get(content, "matches", EmptyList), EmptyList)
         IN  IF content.t # "dict" THEN Raised
             ELSE IF matches.t # "list" THEN Raised
             ELSE Returned(matches.v)

\* Lines 122-123: the matches of the page get_json returned as ret.
PageMatches(ret) ==
    LET data == Or(ret, EmptyDict)
        content == Or(Get(data, "content", EmptyDict), EmptyDict)
        matches == Or(Get(content, "matches", EmptyList), EmptyList)
    IN  IF data.t # "dict" THEN Raised
        ELSE IF content.t # "dict" THEN Raised
        ELSE IF matches.t # "list" THEN Raised
        ELSE Returned(matches.v)

\* Line 124: if not matches: break
EmptyPage(matches) == Len(matches) = 0

\* Mutant of LastPage: a page cap, the second page is the last one whatever
\* its size (a match's id holds the number of its page).
LastPage_Capped(matches) ==
    Len(matches) < MATCHES_PER_PAGE \/ matches[1].v.id.v[2].v >= 2

\* Mutant of LastPage: no page is the last one but the empty one.
LastPage_Never(matches) == FALSE

\* Mutant of LastPage: a full page is taken for the last one.
LastPage_FullToo(matches) == Len(matches) <= MATCHES_PER_PAGE

\* Line 128: if len(matches) < MATCHES_PER_PAGE: break
LastPage(matches) == Len(matches) < MATCHES_PER_PAGE

\* The locals of one generator: page, the matches of the current page and
\* idx, the position of the for loop of line 126.  requested lists the page
\* numbers asked for, slept the arguments of time.sleep (line 131),
\* yielded the ids of the matches yielded so far, and got what the latest
\* get_json call gave: "failed" (None), "lacking" (no content or no
\* matches), "empty" (an empty list of matches) or "page".
NewIter(division, index) ==
    [division_id |-> division, division_index |-> index, page |-> 1,
     matches |-> <<>>, idx |-> 1, got |-> "nothing",
     requested |-> <<1>>, slept |-> <<>>, yielded |-> <<>>]

\* What a returned value is to the generator.
Lacking(ret) ==
    /\ ret.t = "dict"
    /\ \/ "content" \notin DOMAIN ret.v
       \/ ret.v.content.t = "None"
       \/ /\ ret.v.content.t = "dict"
          /\ \/ "matches" \notin DOMAIN ret.v.content.v
             \/ ret.v.content.v.matches.t = "None"
Got(ret) ==
    IF ret.t = "None" THEN "failed"
    ELSE IF Lacking(ret) THEN "lacking"
    ELSE IF ret.v.content.v.matches.t = "list" /\ ret.v.content.v.matches.v = <<>>
         THEN "empty"
    ELSE "page"

NoIter == NewIter(0, 0)

(***************************************************************************)
(* The upstream server.                                                    *)
(***************************************************************************)
\* The size of the page that is neither full nor empty, by page number.
ShortSize(page) == IF page = 1 THEN 3 ELSE 7

Chars(n) == StrOfInt(n)

\* The i-th match of a page: upstream shapes differ from match to match.
\* id names the match: [division id, page, i].
UpstreamMatch(division, page, i) ==
    LET id == PyList(<<PyInt(division), PyInt(page), PyInt(i)>>)
    IN  CASE i % 3 = 1 ->
               PyDict([id |-> id,
                       start_date_time |-> PyStr(<<"T">>),
                       court |-> PyDict([court_name |-> PyStr(<<"C">>),
                                         venue |-> PyDict([name |-> PyStr(<<"G">>)])]),
                       home_team |-> PyDict([name |-> PyStr(<<"H">>)]),
                       away_team |-> PyDict([team_name |-> PyStr(<<"A">>)])])
          [] i % 3 = 2 ->
               PyDict([id |-> id,
                       date |-> PyStr(<<" ", "D">>),
                       court_name |-> PyStr(<<" ">>),
                       field |-> PyStr(<<"F">>),
                       home_name |-> PyStr(<<"H", " ">>),
                       away_team |-> None,
                       awayTeamName |-> PyStr(<<"A">>)])
          [] OTHER ->
               PyDict([id |-> id, home_team |-> PyDict([name |-> PyInt(i)])])

UpstreamPage(division, page, n) == [i \in 1..n |-> UpstreamMatch(division, page, i)]

\* The division records of the public-tournament answer.
DivisionId(j) == 50 - 3 * j
DivisionRecord(j) ==
    CASE j % 3 = 1 ->
           PyDict([id |-> PyInt(DivisionId(j)),
                   division_name |-> PyStr(<<"U">> \o Chars(9 + j)),
                   name |-> PyStr(<<"x">>)])
      [] j % 3 = 2 ->
           PyDict([id |-> PyInt(DivisionId(j)),
                   division_name |-> PyStr(<<>>),
                   name |-> PyStr(<<"G">> \o Chars(9 + j))])
      [] OTHER -> PyDict([id |-> PyInt(DivisionId(j))])
NoIdRecord == PyDict([name |-> PyStr(<<"n", "o", "i", "d">>)])

PublicBody(tournament) == PyDict([content |-> PyDict([tournament |-> tournament])])
ScheduleBody(matches) == PyDict([content |-> PyDict([matches |-> matches])])

\* The outcomes of a request that fails, whatever the endpoint.
FailureOutcomes ==
    <<TransportError,
      Response(429, FALSE, None),
      Response(500, FALSE, None),
      Response(404, FALSE, None),
      Response(200, FALSE, None)>>

\* The bodies upstream may send for the public-tournament endpoint.
PublicOutcomes ==
    FailureOutcomes \o
    <<Response(200, TRUE, None),
      Response(200, TRUE, EmptyDict),
      Response(200, TRUE, PyDict([content |-> None])),
      Response(200, TRUE, PyDict([content |-> EmptyDict])),
      Response(200, TRUE, PublicBody(EmptyDict)),
      Response(200, TRUE, PublicBody(PyDict([divisions |-> PyList(<<NoIdRecord>>)])))>> \o
    [k \in 1..(MaxDivisions + 1) |->
        Response(200, TRUE, PublicBody(PyDict([divisions |->
            PyList([j \in 1..(k - 1) |-> DivisionRecord(j)])])))] \o
    <<Response(200, TRUE, PublicBody(PyDict([divisions |->
            PyList(<<NoIdRecord>> \o
                   [j \in 1..MaxDivisions |-> DivisionRecord(j)])])))>>

\* The answers upstream may give for one page of one division, each with the
\* ids of the matches it carries (sent).
Answer(outcome, sent) == [out |-> outcome, sent |-> sent]
ScheduleAnswers(params, full_sent) ==
    LET page(n) == UpstreamPage(params.division_id, params.page, n)
        order == <<ShortSize(params.page)>> \o
                 (IF full_sent < MaxFullPages THEN <<MATCHES_PER_PAGE>> ELSE <<>>)
    IN  [i \in 1..Len(FailureOutcomes) |-> Answer(FailureOutcomes[i], <<>>)] \o
        <<Answer(Response(200, TRUE, EmptyDict), <<>>),
          Answer(Response(200, TRUE, PyDict([content |-> None])), <<>>),
          Answer(Response(200, TRUE, PyDict([content |-> EmptyDict])), <<>>),
          Answer(Response(200, TRUE, ScheduleBody(EmptyList)), <<>>)>> \o
        [i \in 1..Len(order) |->
            Answer(Response(200, TRUE, ScheduleBody(PyList(page(order[i])))),
                   [k \in 1..order[i] |-> <<params.division_id, params.page, k>>])]

\* full_sent counts the full pages sent so far.
Upstream(url, params, full_sent) ==
    IF url = BASE_PUBLIC
    THEN [i \in 1..Len(PublicOutcomes) |-> Answer(PublicOutcomes[i], <<>>)]
    ELSE ScheduleAnswers(params, full_sent)

(***************************************************************************)
(* run (lines 228-264).                                                    *)
(***************************************************************************)
\* Line 243.
fieldnames ==
    <<"game_start_time", "location", "court", "division", "home_team", "away_team">>

\* The id of an upstream match, as a tuple of numbers.
MatchId(m) == [i \in 1..Len(m.v.id.v) |-> m.v.id.v[i].v]

\* Lines 251-258: the row of match m of the division named div_name.  src is
\* no column of the file: it names the upstream match the row was made from.
Row(div_name, m) ==
    [kind |-> "row",
     game_start_time |-> extract_time(m),
     location |-> extract_location(m),
     court |-> extract_court(m),
     division |-> div_name,
     home_team |-> extract_home(m),
     away_team |-> extract_away(m),
     src |-> MatchId(m)]

\* Line 230: token or os.environ.get("BRACKETTEAM_TOKEN") or the literal.
EffectiveToken(token, environ) == Or(Or(token, environ), PyStr(DEFAULT_TOKEN))

\* Line 231: if not token
MissingToken(token) == ~Truthy(token)

\* Mutant of NoDivisions: the check of line 238 is left out.
NoDivisions_Unchecked(divs) == FALSE

\* Line 238: if not divisions
NoDivisions(divs) == Len(divs) = 0

\* Mutant of DivisionColumn: the name of the first division for every row.
DivisionColumn_First(divs, index) == divs[1].name

\* Line 255: the division column of the rows of the index-th division.
DivisionColumn(divs, index) == divs[index].name

\* The event references, tokens and environments a run may be given.
EventRefs ==
    {<<"/", "e", "v", "e", "n", "t", "/", "6", "4", "/", "s">>,
     <<"e", "v", "e", "n", "t", "/", "6", "4">>}
TokenArgs == {None, PyStr(<<"a">>)}
EnvironTokens == {None, PyStr(<<"e">>)}

VARIABLES
    event_ref,      \* run's argument event_ref
    token_arg,      \* run's argument token
    token_env,      \* os.environ.get("BRACKETTEAM_TOKEN")
    json_error_is_request_exception,
                    \* whether the installed requests derives its
                    \* JSONDecodeError from RequestException (2.27 and later)
    pc,             \* where run is
    tournament_id,  \* line 229
    session,        \* the X-Authorization header of the session (line 235)
    divisions,      \* line 237
    gj,             \* the frame of the current get_json call
    it,             \* the frame of the current iter_matches generator
    received,       \* per get_json call of the generator, the ids of the
                    \* matches upstream sent in the answer that ended it
    out_file,       \* the file out_csv
    rows_written,   \* line 244
    exit_code,      \* run's return value, -1 before it returns
    exception,      \* the exception run raised, "" when none
    failed,         \* the indexes of the divisions whose every fetch failed
    requested,      \* the endpoints a request was sent to
    full_pages,     \* the number of full pages upstream has sent
    public_calls,   \* the number of get_json calls get_divisions has made
    retried_before, \* whether the get_json call of get_divisions had slept,
                    \* kept until the next get_json call has returned
    fn,             \* the function applied on its own, "run" in a run
    arg,            \* its argument
    out             \* its result

vars ==
    <<event_ref, token_arg, token_env, json_error_is_request_exception, pc,
      tournament_id, session, divisions, gj, it, received, out_file,
      rows_written, exit_code, exception, failed, requested, full_pages,
      public_calls, retried_before, fn, arg, out>>

inputs == <<event_ref, token_arg, token_env, json_error_is_request_exception>>
upstream == <<requested, full_pages>>
unit == <<fn, arg, out>>

\* The file before the run: whatever an earlier run left.
OldFile == [state |-> "untouched", lines |-> <<[kind |-> "old"]>>]

Init ==
    /\ public_calls = 0
    /\ retried_before = FALSE
    /\ fn = "run"
    /\ arg = <<>>
    /\ out = <<>>
    /\ event_ref \in EventRefs
    /\ token_arg \in TokenArgs
    /\ token_env \in EnvironTokens
    /\ json_error_is_request_exception \in BOOLEAN
    /\ pc = "start"
    /\ tournament_id = 0
    /\ session = <<>>
    /\ divisions = <<>>
    /\ gj = NoCall
    /\ it = NoIter
    /\ received = <<>>
    /\ out_file = OldFile
    /\ rows_written = 0
    /\ exit_code = -1
    /\ exception = ""
    /\ failed = {}
    /\ requested = {}
    /\ full_pages = 0

\* Lines 229-237: parse the reference, settle the token, make the session
\* and enter get_divisions up to its get_json call (lines 88-89).
RunStart ==
    /\ pc = "start"
    /\ LET parsed == parse_event_id(event_ref)
           token == EffectiveToken(token_arg, token_env)
       IN  IF parsed.raised
           THEN /\ pc' = "raised"
                /\ exception' = "ValueError"
                /\ UNCHANGED <<tournament_id, session, gj, exit_code, public_calls>>
           ELSE IF MissingToken(token)
           THEN /\ pc' = "exit"
                /\ exit_code' = 2
                /\ tournament_id' = parsed.value
                /\ UNCHANGED <<session, gj, exception, public_calls>>
           ELSE /\ pc' = "get_divisions"
                /\ tournament_id' = parsed.value
                /\ session' = token.v
                /\ gj' = NewCall(BASE_PUBLIC, [tournament_id |-> parsed.value])
                /\ public_calls' = public_calls + 1
                /\ UNCHANGED <<exit_code, exception>>
    /\ UNCHANGED <<inputs, divisions, it, received, out_file, rows_written, failed,
                   upstream, retried_before, unit>>

\* Lines 52-78: one round of get_json's loop, upstream choosing the outcome.
GetJsonAttempt ==
    /\ gj.status = "running"
    /\ LET answers == Upstream(gj.url, gj.params, full_pages)
       IN  \E i \in DOMAIN answers :
             LET after == GetJsonRound(gj, answers[i].out,
                                       json_error_is_request_exception)
             IN  /\ gj' = after
                 /\ received' =
                       IF gj.url = BASE_SCHEDULE /\ after.status = "returned"
                       THEN Append(received, answers[i].sent)
                       ELSE received
                 /\ full_pages' =
                       IF Len(answers[i].sent) = MATCHES_PER_PAGE
                       THEN full_pages + 1 ELSE full_pages
    /\ requested' = requested \cup {gj.url}
    /\ UNCHANGED <<inputs, pc, tournament_id, session, divisions, it, out_file,
                   rows_written, exit_code, exception, failed, public_calls,
                   retried_before, unit>>

\* Mutant of EnterDivision: a division whose fetches failed ends the loop
\* and run returns 1.
EnterDivision_AbortOnFailure(index, divs, file) ==
    IF index <= Len(divs) /\ failed = {}
    THEN /\ it' = NewIter(divs[index].id, index)
         /\ gj' = NewCall(BASE_SCHEDULE,
                          ScheduleParams(tournament_id, divs[index].id, 1))
         /\ received' = <<>>
         /\ pc' = "iter_fetch"
         /\ out_file' = file
         /\ UNCHANGED exit_code
    ELSE /\ pc' = "exit"
         /\ exit_code' = IF failed = {} THEN 0 ELSE 1
         /\ out_file' = [file EXCEPT !.state = "closed"]
         /\ UNCHANGED <<it, gj, received>>

\* Lines 249-250 with 106-122, or 263-264: the for loop takes the index-th
\* division and its generator runs up to its first get_json; after the last
\* division the file is closed and run returns 0.
EnterDivision(index, divs, file) ==
    IF index <= Len(divs)
    THEN /\ it' = NewIter(divs[index].id, index)
         /\ gj' = NewCall(BASE_SCHEDULE,
                          ScheduleParams(tournament_id, divs[index].id, 1))
         /\ received' = <<>>
         /\ pc' = "iter_fetch"
         /\ out_file' = file
         /\ UNCHANGED exit_code
    ELSE /\ pc' = "exit"
         /\ exit_code' = 0
         /\ out_file' = [file EXCEPT !.state = "closed"]
         /\ UNCHANGED <<it, gj, received>>

\* Mutant of AfterDivisions: the file is opened and the header written
\* before the divisions are looked at.
AfterDivisions_OpenFirst ==
    /\ pc = "get_divisions"
    /\ gj.status = "returned"
    /\ LET result == get_divisions(gj.ret)
           opened == [state |-> "open",
                      lines |-> <<[kind |-> "header", fields |-> fieldnames]>>]
       IN  IF result.raised
           THEN /\ pc' = "raised"
                /\ exception' = "AttributeError"
                /\ out_file' = opened
                /\ UNCHANGED <<divisions, gj, it, received, exit_code>>
           ELSE IF NoDivisions(result.value)
           THEN /\ pc' = "exit"
                /\ exit_code' = 1
                /\ divisions' = result.value
                /\ out_file' = [opened EXCEPT !.state = "closed"]
                /\ UNCHANGED <<gj, it, received, exception>>
           ELSE /\ divisions' = result.value
                /\ EnterDivision(1, result.value, opened)
                /\ UNCHANGED exception
    /\ rows_written' = 0
    /\ retried_before' = (gj.slept # <<>>)
    /\ UNCHANGED <<inputs, tournament_id, session, failed, upstream, public_calls,
                   unit>>

\* Lines 89-99 and 237-250: get_divisions returns; without divisions run
\* returns 1, else it opens the file, writes the header and starts on the
\* first division.
AfterDivisions ==
    /\ pc = "get_divisions"
    /\ gj.status = "returned"
    /\ LET result == get_divisions(gj.ret)
       IN  IF result.raised
           THEN /\ pc' = "raised"
                /\ exception' = "AttributeError"
                /\ UNCHANGED <<divisions, gj, it, received, out_file, exit_code>>
           ELSE IF NoDivisions(result.value)
           THEN /\ pc' = "exit"
                /\ exit_code' = 1
                /\ divisions' = result.value
                /\ UNCHANGED <<gj, it, received, out_file, exception>>
           ELSE /\ divisions' = result.value
                /\ EnterDivision(1, result.value,
                       [state |-> "open",
                        lines |-> <<[kind |-> "header", fields |-> fieldnames]>>])
                /\ UNCHANGED exception
    /\ rows_written' = 0
    /\ retried_before' = (gj.slept # <<>>)
    /\ UNCHANGED <<inputs, tournament_id, session, failed, upstream, public_calls,
                   unit>>

\* Lines 122-125: the page has arrived; an empty one ends the generator.
IterPage ==
    /\ pc = "iter_fetch"
    /\ gj.status = "returned"
    /\ LET result == PageMatches(gj.ret)
           now == [it EXCEPT !.got = Got(gj.ret)]
       IN  IF result.raised
           THEN /\ pc' = "raised"
                /\ exception' = "AttributeError"
                /\ it' = now
           ELSE IF EmptyPage(result.value)
           THEN /\ pc' = "iter_done"
                /\ it' = [now EXCEPT !.matches = <<>>, !.idx = 1]
                /\ UNCHANGED exception
           ELSE /\ pc' = "iter_yield"
                /\ it' = [now EXCEPT !.matches = result.value, !.idx = 1]
                /\ UNCHANGED exception
    /\ failed' = IF gj.ret.t = "None" /\ it.page = 1
                 THEN failed \cup {it.division_index} ELSE failed
    /\ gj' = NoCall
    /\ retried_before' = FALSE
    /\ UNCHANGED <<inputs, tournament_id, session, divisions, received, out_file,
                   rows_written, exit_code, upstream, public_calls, unit>>

\* Lines 126-127 and 251-259: the generator yields a match, run writes its row.
YieldMatch ==
    /\ pc = "iter_yield"
    /\ it.idx <= Len(it.matches)
    /\ LET m == it.matches[it.idx]
       IN  /\ it' = [it EXCEPT !.idx = @ + 1, !.yielded = Append(@, MatchId(m))]
           /\ out_file' = [out_file EXCEPT !.lines =
                 Append(@, Row(DivisionColumn(divisions, it.division_index), m))]
    /\ rows_written' = rows_written + 1
    /\ UNCHANGED <<inputs, pc, tournament_id, session, divisions, gj, received,
                   exit_code, exception, failed, upstream, public_calls,
                   retried_before, unit>>

\* Lines 128-131 and 108-122: after the page's last match, stop on a short
\* page, else sleep and ask for the next page.
IterAdvance ==
    /\ pc = "iter_yield"
    /\ it.idx > Len(it.matches)
    /\ IF LastPage(it.matches)
       THEN /\ pc' = "iter_done"
            /\ UNCHANGED <<it, gj>>
       ELSE /\ pc' = "iter_fetch"
            /\ it' = [it EXCEPT !.page = @ + 1,
                                 !.slept = Append(@, SLEEP_TIME),
                                 !.requested = Append(@, it.page + 1)]
            /\ gj' = NewCall(BASE_SCHEDULE,
                             ScheduleParams(tournament_id, it.division_id, it.page + 1))
    /\ UNCHANGED <<inputs, tournament_id, session, divisions, received, out_file,
                   rows_written, exit_code, exception, failed, upstream,
                   public_calls, retried_before, unit>>

\* Lines 260-261, then 249-250 for the next division or 263-264 after the
\* last one: the file is closed and run returns 0.
NextDivision ==
    /\ pc = "iter_done"
    /\ EnterDivision(it.division_index + 1, divisions, out_file)
    /\ UNCHANGED <<inputs, tournament_id, session, divisions, rows_written,
                   exception, failed, upstream, public_calls, retried_before, unit>>

Next ==
    \/ RunStart
    \/ GetJsonAttempt
    \/ AfterDivisions
    \/ IterPage
    \/ YieldMatch
    \/ IterAdvance
    \/ NextDivision

Spec == Init /\ [][Next]_vars

\* run is one sequential thread: a step that can be taken is taken.
FairSpec == Spec /\ WF_vars(Next)

(***************************************************************************)
(* The helpers on their own: parse_event_id, first_nonempty, extract_home  *)
(* and extract_away applied once to an argument, outside a run.            *)
(***************************************************************************)
\* The pieces event references are made of.
EventTokens ==
    <<EventPrefix, <<"7">>, <<"0">>, <<"1", "2", "/">>, <<"/">>, <<" ">>, <<"x">>>>

RECURSIVE Concat(_)
Concat(pieces) == IF pieces = <<>> THEN <<>> ELSE Head(pieces) \o Concat(Tail(pieces))

\* The candidates first_nonempty is given.
CandidateValues ==
    <<None, PyStr(<<>>), PyStr(<<" ", " ", " ">>), PyStr(<<"X">>),
      PyStr(<<" ", "Y", "\t">>), PyInt(7)>>

\* The values of the name and team_name of a nested team and of the flat
\* key home_name or away_name.
NameValues ==
    <<None, PyStr(<<>>), PyStr(<<" ">>), PyStr(<<"A">>), PyStr(<<" ", "A", " ">>),
      PyInt(5), PyInt(0)>>
TeamNameValues == <<None, PyStr(<<>>), PyStr(<<"T">>), PyStr(<<" ", "T", "\n">>)>>
FlatNameValues == <<None, PyStr(<<" ">>), PyStr(<<"B">>)>>

\* The dict of the pairs that are on; a pair is [k, on, v].
DictOf(pairs) ==
    PyDict([key \in {pairs[i].k : i \in {j \in DOMAIN pairs : pairs[j].on}} |->
               pairs[CHOOSE i \in DOMAIN pairs : pairs[i].k = key].v])

\* The i-th value of values as the value of key k; i = 0 leaves the key out.
Pair(k, values, i) ==
    [k |-> k, on |-> i > 0, v |-> IF i > 0 THEN values[i] ELSE None]

\* A nested team: no dict (None, a str) or a dict of name and team_name.
NestedTeam(kind, n, t) ==
    CASE kind = 1 -> None
      [] kind = 2 -> PyStr(<<"S">>)
      [] OTHER -> DictOf(<<Pair("name", NameValues, n),
                           Pair("team_name", TeamNameValues, t)>>)

\* A match for extract_home (side "home") or extract_away (side "away").
TeamMatch(side, kind, n, t, f1, f2, f3) ==
    LET keys == IF side = "home"
                THEN <<"home_team", "home_name", "homeTeamName", "team_home_name">>
                ELSE <<"away_team", "away_name", "awayTeamName", "team_away_name">>
    IN  DictOf(<<[k |-> keys[1], on |-> kind > 0, v |-> NestedTeam(kind, n, t)],
                 Pair(keys[2], FlatNameValues, f1),
                 Pair(keys[3], <<PyStr(<<"C">>)>>, f2),
                 Pair(keys[4], <<PyStr(<<"D">>)>>, f3)>>)

\* The result of a function that has not been applied yet.
Pending == [done |-> FALSE, raised |-> FALSE, value |-> <<>>]
Result(raised, value) == [done |-> TRUE, raised |-> raised, value |-> value]

\* The variables of a run.
run_state ==
    <<inputs, pc, tournament_id, session, divisions, gj, it, received, out_file,
      rows_written, exit_code, exception, failed, upstream, public_calls,
      retried_before>>

FunctionsInit ==
    /\ \/ /\ fn = "parse_event_id"
          /\ \E n \in 0..MaxTokens :
                \E pieces \in [1..n -> 1..Len(EventTokens)] :
                   arg = Concat([i \in 1..n |-> EventTokens[pieces[i]]])
       \/ /\ fn = "first_nonempty"
          /\ \E n \in 0..MaxCandidates :
                \E c \in [1..n -> 1..Len(CandidateValues)] :
                   arg = [i \in 1..n |-> CandidateValues[c[i]]]
       \/ /\ fn \in {"extract_home", "extract_away"}
          /\ \E kind \in 0..3, n \in 0..Len(NameValues), t \in 0..Len(TeamNameValues),
                f1 \in 0..Len(FlatNameValues), f2 \in 0..1, f3 \in 0..1 :
                /\ kind < 3 => (n = 0 /\ t = 0)
                /\ arg = TeamMatch(IF fn = "extract_home" THEN "home" ELSE "away",
                                   kind, n, t, f1, f2, f3)
    /\ out = Pending
    /\ event_ref = <<>>
    /\ token_arg = None
    /\ token_env = None
    /\ json_error_is_request_exception = FALSE
    /\ pc = "none"
    /\ tournament_id = 0
    /\ session = <<>>
    /\ divisions = <<>>
    /\ gj = NoCall
    /\ it = NoIter
    /\ received = <<>>
    /\ out_file = OldFile
    /\ rows_written = 0
    /\ exit_code = -1
    /\ exception = ""
    /\ failed = {}
    /\ requested = {}
    /\ full_pages = 0
    /\ public_calls = 0
    /\ retried_before = FALSE

\* Lines 23-33.
ParseEventId ==
    /\ fn = "parse_event_id"
    /\ ~out.done
    /\ LET r == parse_event_id(arg) IN out' = Result(r.raised, r.value)
    /\ UNCHANGED <<fn, arg, run_state>>

\* Lines 136-140.
FirstNonempty ==
    /\ fn = "first_nonempty"
    /\ ~out.done
    /\ out' = Result(FALSE, first_nonempty(arg))
    /\ UNCHANGED <<fn, arg, run_state>>

\* Lines 201-211.
ExtractHome ==
    /\ fn = "extract_home"
    /\ ~out.done
    /\ out' = Result(FALSE, extract_home(arg))
    /\ UNCHANGED <<fn, arg, run_state>>

\* Lines 214-223.
ExtractAway ==
    /\ fn = "extract_away"
    /\ ~out.done
    /\ out' = Result(FALSE, extract_away(arg))
    /\ UNCHANGED <<fn, arg, run_state>>

FunctionsNext ==
    \/ ParseEventId
    \/ FirstNonempty
    \/ ExtractHome
    \/ ExtractAway

Functions == FunctionsInit /\ [][FunctionsNext]_vars

(***************************************************************************)
(* Properties.                                                             *)
(***************************************************************************)
\* The latest outcome of the current call is one get_json retries by its
\* documentation: a transport failure, a 429 or a 5xx.
RetryableSeen ==
    \/ gj.last.kind = "exc"
    \/ gj.last.kind = "resp"
       /\ (gj.last.status_code = 429
           \/ (500 <= gj.last.status_code /\ gj.last.status_code <= 599))

\* The latest outcome is a success status with a body that parses.
SuccessSeen ==
    /\ gj.last.kind = "resp"
    /\ gj.last.status_code < 400
    /\ gj.last.parses

\* The latest outcome is an error status other than 429 and 5xx.
PermanentSeen ==
    /\ gj.last.kind = "resp"
    /\ 400 <= gj.last.status_code /\ gj.last.status_code < 500
    /\ gj.last.status_code # 429

\* The latest outcome is a success status with a body that does not parse.
BadJsonSeen ==
    /\ gj.last.kind = "resp"
    /\ gj.last.status_code < 400
    /\ ~gj.last.parses

GaveUp == gj.status = "returned" /\ gj.ret.t = "None"

\* C1: a get_json call makes at most 3 HTTP attempts; when the 3rd attempt
\* too ends in a retryable outcome (429, 5xx, transport failure) the call
\* has returned None having slept exactly twice.
C1_AtMostThreeAttempts ==
    /\ gj.attempt <= 3
    /\ (gj.attempt = 3 /\ RetryableSeen) => (GaveUp /\ Len(gj.slept) = 2)

\* A call that gave up after three attempts, the last a transport failure.
C1_Witness ==
    /\ gj.url = BASE_SCHEDULE
    /\ gj.attempt = 3
    /\ gj.last.kind = "exc"
    /\ GaveUp
    /\ Len(gj.slept) = 2

\* 1.5 * 1.5^(i-1) in thousandths: 1500, 2250.
RECURSIVE BackoffDelay(_)
BackoffDelay(i) == IF i = 1 THEN 1500 ELSE (BackoffDelay(i - 1) * 3) \div 2

\* The ids of the matches of a schedule body.
BodyMatchIds(body) ==
    IF Got(body) = "page"
    THEN [i \in 1..Len(body.v.content.v.matches.v) |->
              MatchId(body.v.content.v.matches.v[i])]
    ELSE <<>>

\* C2: a call whose (k+1)-th outcome is a success with a parseable body,
\* after k outcomes that made it go round again, has returned the parsed
\* body after exactly k sleeps, the i-th lasting 1.5 * 1.5^(i-1): 1.5, then
\* 2.25, strictly increasing.
C2_SuccessAfterBackoff ==
    SuccessSeen =>
        /\ gj.status = "returned"
        /\ Len(gj.slept) = gj.attempt - 1
        /\ \A i \in 1..Len(gj.slept) : gj.slept[i] = BackoffDelay(i)
        /\ \A i \in 1..(Len(gj.slept) - 1) : gj.slept[i] < gj.slept[i + 1]
        /\ gj.url = BASE_SCHEDULE =>
              /\ gj.ret.t = "dict"
              /\ received # <<>>
              /\ BodyMatchIds(gj.ret) = received[Len(received)]

\* The third outcome is the success: 2 sleeps, 1.5 then 2.25, and the page
\* of 7 matches is returned.
C2_Witness ==
    /\ gj.url = BASE_SCHEDULE
    /\ SuccessSeen
    /\ gj.attempt = 3
    /\ gj.slept = <<1500, 2250>>
    /\ gj.status = "returned"
    /\ Len(BodyMatchIds(gj.ret)) = 7

\* The sizes of the pages upstream sent to the current generator.
ReceivedSizes == [i \in 1..Len(received) |-> Len(received[i])]

\* The matches upstream sent to the current generator, in order.
RECURSIVE Flatten(_)
Flatten(pages) == IF pages = <<>> THEN <<>> ELSE Head(pages) \o Flatten(Tail(pages))

IsPrefix(a, b) == Len(a) <= Len(b) /\ SubSeq(b, 1, Len(a)) = a

\* C3: the generator never yields more than it received, in the order
\* received; when it ends it has made exactly n fetches, n the index of the
\* first page of fewer than 20 matches (a failed page counting as empty),
\* and has yielded exactly the matches of pages 1..n.
C3_PaginationStops ==
    /\ pc \in {"iter_fetch", "iter_yield", "iter_done"} =>
          IsPrefix(it.yielded, Flatten(received))
    /\ pc = "iter_done" =>
          LET n == Len(received)
          IN  /\ n >= 1
              /\ Len(received[n]) < 20
              /\ \A i \in 1..(n - 1) : Len(received[i]) >= 20
              /\ Len(it.requested) = n
              /\ it.yielded = Flatten(received)

\* Pages of 20, 20 and 7: 47 matches in 3 fetches.
C3_Witness ==
    /\ pc = "iter_done"
    /\ ReceivedSizes = <<20, 20, 7>>
    /\ Len(it.yielded) = 47
    /\ Len(it.requested) = 3

\* Pages of 20, 20, 20 and 0: 60 matches in 4 fetches.
C3_WitnessFullLastPage ==
    /\ pc = "iter_done"
    /\ ReceivedSizes = <<20, 20, 20, 0>>
    /\ Len(it.yielded) = 60
    /\ Len(it.requested) = 4

\* C4: once an attempt of a call gets an error status that is neither 429
\* nor 5xx, the call has returned None with no sleep after that response:
\* one sleep per earlier attempt and none more, whatever the attempt.
C4_PermanentFailsAtOnce ==
    PermanentSeen => (GaveUp /\ Len(gj.slept) = gj.attempt - 1)

\* A 404 on the second attempt: returned at once, one sleep in all.
C4_Witness ==
    /\ PermanentSeen
    /\ gj.attempt = 2
    /\ GaveUp
    /\ Len(gj.slept) = 1

\* C5 (as claimed): once an attempt gets a success status with a body that
\* does not parse, the call has returned None, with no sleep and no further
\* attempt after that response.
C5_BadJsonFailsAtOnce ==
    BadJsonSeen => (GaveUp /\ Len(gj.slept) = gj.attempt - 1)

\* The rows of the file, in order.
RowLines == SelectSeq(out_file.lines, LAMBDA l : l.kind = "row")

\* The rows made from matches of the division with this id.
RowsOf(division_id) == SelectSeq(RowLines, LAMBDA l : l.src[1] = division_id)

\* C6: when the page fetch of a generator returns None or a body lacking
\* content or matches, the generator ends without raising, the matches
\* yielded so far and the rows written stay, and no further page of that
\* division is requested.
C6_FailedPageEndsIteration ==
    [][/\ (/\ pc = "iter_fetch"
           /\ gj.status = "returned"
           /\ (gj.ret.t = "None" \/ Lacking(gj.ret)))
          => /\ pc' = "iter_done"
             /\ exception' = ""
             /\ it'.yielded = it.yielded
             /\ it'.requested = it.requested
             /\ out_file' = out_file
       /\ pc = "iter_done"
          => \/ it'.division_index # it.division_index
             \/ (it'.requested = it.requested /\ gj'.status # "running")]_vars

\* The second page of a division failed after a full first page: the
\* generator is over and the 20 rows of the first page are in the file.
C6_Witness ==
    /\ pc = "iter_done"
    /\ it.got = "failed"
    /\ ReceivedSizes = <<20, 0>>
    /\ Len(it.yielded) = 20
    /\ Len(RowsOf(it.division_id)) = 20

\* The same with a body without matches.
C6_WitnessLacking ==
    /\ pc = "iter_done"
    /\ it.got = "lacking"
    /\ ReceivedSizes = <<20, 0>>
    /\ Len(it.yielded) = 20

\* C7: a division whose every schedule fetch failed contributes no row and
\* does not stop the run: nothing is raised, the loop goes on to the last
\* division, the rows of the division being paginated are written as they
\* are yielded, and run returns 0.
C7_FailedDivisionTolerated ==
    /\ pc \in {"iter_fetch", "iter_yield", "iter_done"} =>
          LET mine == RowsOf(it.division_id)
          IN  /\ Len(mine) = Len(it.yielded)
              /\ \A i \in 1..Len(mine) : mine[i].src = it.yielded[i]
    /\ \A d \in failed :
          /\ pc \in {"iter_fetch", "iter_yield", "iter_done", "exit"}
          /\ exception = ""
          /\ RowsOf(divisions[d].id) = <<>>
          /\ pc = "exit" =>
                /\ exit_code = 0
                /\ it.division_index = Len(divisions)
                /\ out_file.state = "closed"

\* Two divisions, every fetch of the first failed, the second gave a page
\* of 3 matches: 3 rows and exit code 0.
C7_Witness ==
    /\ pc = "exit"
    /\ exit_code = 0
    /\ Len(divisions) = 2
    /\ failed = {1}
    /\ Len(RowLines) = 3
    /\ Len(RowsOf(divisions[2].id)) = 3

\* get_divisions has returned to run.
Enumerated ==
    \/ pc \in {"iter_fetch", "iter_yield", "iter_done"}
    \/ pc = "exit" /\ exit_code # 2

\* C8: when get_divisions gives an empty list, run returns 1, with no row
\* written and no request to the division-schedule endpoint; and run
\* returns 1 in that case only.
C8_NoDivisionsExitsOne ==
    /\ (Enumerated /\ Len(divisions) = 0) =>
          /\ pc = "exit"
          /\ exit_code = 1
          /\ RowLines = <<>>
          /\ rows_written = 0
          /\ BASE_SCHEDULE \notin requested
    /\ exit_code = 1 => Len(divisions) = 0

\* The public-tournament fetch failed on all three attempts: exit code 1.
C8_Witness ==
    /\ pc = "exit"
    /\ exit_code = 1
    /\ gj.url = BASE_PUBLIC
    /\ gj.attempt = 3
    /\ GaveUp
    /\ RowLines = <<>>

\* The position of a row's match: division index, page, index in the page.
RowPosition(row) ==
    <<CHOOSE j \in 1..Len(divisions) : divisions[j].id = row.src[1],
      row.src[2], row.src[3]>>

LexLess(a, b) ==
    \/ a[1] < b[1]
    \/ a[1] = b[1] /\ a[2] < b[2]
    \/ a[1] = b[1] /\ a[2] = b[2] /\ a[3] < b[3]

\* C9: every row's division column is the display name of the division
\* whose pagination produced its match, and the rows are in division, then
\* page, then in-page order.
C9_RowsInDivisionOrder ==
    LET rows == RowLines
    IN  /\ rows_written = Len(rows)
        /\ \A k \in 1..Len(rows) :
              \E j \in 1..Len(divisions) :
                 /\ divisions[j].id = rows[k].src[1]
                 /\ rows[k].division = divisions[j].name
        /\ \A k \in 1..(Len(rows) - 1) :
              LexLess(RowPosition(rows[k]), RowPosition(rows[k + 1]))

\* Two divisions of one page of 3 matches each: 6 rows, 3 named U10 then 3
\* named G11.
C9_Witness ==
    /\ pc = "exit"
    /\ exit_code = 0
    /\ Len(divisions) = 2
    /\ LET rows == RowLines
       IN  /\ Len(rows) = 6
           /\ \A k \in 1..3 : rows[k].division = <<"U", "1", "0">>
           /\ \A k \in 4..6 : rows[k].division = <<"G", "1", "1">>

\* Neither the argument nor the environment gives a token.
NoTokenGiven == ~Truthy(token_arg) /\ ~Truthy(token_env)

\* C10 (as claimed): without a token from the argument or the environment
\* run returns 2 and sends no request.
C10_MissingTokenExitsTwo ==
    (NoTokenGiven /\ pc # "start" /\ exception # "ValueError") =>
        (pc = "exit" /\ exit_code = 2 /\ requested = {})

\* The public-tournament call failed (None), or a level of the path
\* content -> tournament -> divisions is not there.
PathAbsent(ret) ==
    \/ ret.t = "None"
    \/ /\ ret.t = "dict"
       /\ \/ "content" \notin DOMAIN ret.v
          \/ /\ ret.v.content.t = "dict"
             /\ \/ "tournament" \notin DOMAIN ret.v.content.v
                \/ /\ ret.v.content.v.tournament.t = "dict"
                   /\ "divisions" \notin DOMAIN ret.v.content.v.tournament.v

\* get_divisions has returned or raised, and gj is still its call.
DivisionsDone ==
    /\ gj.url = BASE_PUBLIC
    /\ gj.status = "returned"
    /\ pc # "get_divisions"

\* C11: when its fetch failed or a level of content -> tournament ->
\* divisions is absent, get_divisions returns the empty list and raises
\* nothing; and it calls get_json once, however many attempts that call makes.
C11_AbsentPathGivesNoDivisions ==
    /\ (DivisionsDone /\ PathAbsent(gj.ret)) =>
          /\ exception = ""
          /\ divisions = <<>>
          /\ pc = "exit"
          /\ exit_code = 1
    /\ public_calls <= 1
    /\ (pc \notin {"start", "raised"} \/ gj.url = BASE_PUBLIC) => public_calls = 1

\* The body has a content without tournament, got on the third attempt.
C11_Witness ==
    /\ DivisionsDone
    /\ gj.ret.t = "dict"
    /\ "content" \in DOMAIN gj.ret.v
    /\ PathAbsent(gj.ret)
    /\ gj.attempt = 3
    /\ public_calls = 1
    /\ divisions = <<>>
    /\ exit_code = 1

\* The fetch itself failed.
C11_WitnessFailedFetch ==
    /\ DivisionsDone
    /\ gj.ret.t = "None"
    /\ gj.last.kind = "exc"
    /\ public_calls = 1
    /\ exit_code = 1

\* A value is usable as a name: a str with a character that is no whitespace.
Usable(v) == v.t = "str" /\ \E i \in DOMAIN v.v : ~IsSpace(v.v[i])

\* s from its first to its last character that is no whitespace.
Trimmed(s) ==
    LET solid == {i \in DOMAIN s : ~IsSpace(s[i])}
    IN  IF solid = {} THEN <<>>
        ELSE SubSeq(s, CHOOSE i \in solid : \A j \in solid : i <= j,
                       CHOOSE i \in solid : \A j \in solid : j <= i)

\* extract_home or extract_away has been applied to the match arg.
TeamApplied == fn \in {"extract_home", "extract_away"} /\ out.done
TeamKey == IF fn = "extract_home" THEN "home_team" ELSE "away_team"
FlatKeys ==
    IF fn = "extract_home" THEN <<"home_name", "homeTeamName", "team_home_name">>
    ELSE <<"away_name", "awayTeamName", "team_away_name">>

\* The value of key k of the nested team, None when there is no such dict
\* or no such key.
NestedValue(k) ==
    IF TeamKey \in DOMAIN arg.v /\ arg.v[TeamKey].t = "dict"
    THEN Get(arg.v[TeamKey], k, None)
    ELSE None
FlatValue(i) == Get(arg, FlatKeys[i], None)

\* C12: extract_home and extract_away return a str, never null: the nested
\* name, trimmed, when it is usable, whatever the flat keys hold; without a
\* nested team the flat home_name or away_name when usable; and the empty
\* string when there is neither a nested team nor a usable flat key.
C12_NestedNameFirst ==
    TeamApplied =>
        /\ ~out.raised
        /\ out.value \in Seq(STRING)
        /\ Usable(NestedValue("name")) => out.value = Trimmed(NestedValue("name").v)
        /\ (TeamKey \notin DOMAIN arg.v /\ Usable(FlatValue(1))) =>
              out.value = Trimmed(FlatValue(1).v)
        /\ (TeamKey \notin DOMAIN arg.v /\ \A i \in 1..3 : ~Usable(FlatValue(i))) =>
              out.value = <<>>

\* Nested home_team.name = "A" and flat home_name = "B": "A".
C12_Witness ==
    /\ fn = "extract_home"
    /\ out.done
    /\ Usable(NestedValue("name")) /\ NestedValue("name").v = <<"A">>
    /\ Usable(FlatValue(1)) /\ FlatValue(1).v = <<"B">>
    /\ out.value = <<"A">>

\* Only away_name = "B": "B".
C12_WitnessFlatOnly ==
    /\ fn = "extract_away"
    /\ out.done
    /\ DOMAIN arg.v = {"away_name"}
    /\ Usable(FlatValue(1)) /\ FlatValue(1).v = <<"B">>
    /\ out.value = <<"B">>

\* Neither: the empty string.
C12_WitnessNeither ==
    /\ fn = "extract_home"
    /\ out.done
    /\ DOMAIN arg.v = {}
    /\ out.value = <<>>

\* The number a sequence of decimal digits writes, read from the left.
RECURSIVE Decimal(_, _)
Decimal(ds, acc) ==
    IF ds = <<>> THEN acc
    ELSE Decimal(Tail(ds), 10 * acc + DigitValue(Head(ds)))

\* s holds "/event/", n digits and "/" from index i on.
SegmentAt(s, i, n) ==
    /\ i + 7 + n <= Len(s)
    /\ SubSeq(s, i, i + 6) = <<"/", "e", "v", "e", "n", "t", "/">>
    /\ \A k \in (i + 7)..(i + 6 + n) : IsDigit(s[k])
    /\ s[i + 7 + n] = "/"

\* The /event/<digits>/ segments of s, as pairs of index and digit count.
Segments(s) ==
    {p \in (1..Len(s)) \X (1..Len(s)) : SegmentAt(s, p[1], p[2])}

\* s is digits between whitespace: the indexes of the first and last digit.
DigitSpans(s) ==
    {p \in (1..Len(s)) \X (1..Len(s)) :
        /\ p[1] <= p[2]
        /\ \A k \in 1..Len(s) :
              IF p[1] <= k /\ k <= p[2] THEN IsDigit(s[k]) ELSE IsSpace(s[k])}

\* C13: parse_event_id returns the number of the first /event/<digits>/
\* segment of its argument when there is one; else the number the argument
\* writes when, trimmed, it is digits only; else it raises.
C13_ParseEventId ==
    (fn = "parse_event_id" /\ out.done) =>
        LET segs == Segments(arg)
            spans == DigitSpans(arg)
        IN  IF segs # {}
            THEN LET first == CHOOSE p \in segs : \A q \in segs : p[1] <= q[1]
                 IN  /\ ~out.raised
                     /\ out.value =
                           Decimal(SubSeq(arg, first[1] + 7, first[1] + 6 + first[2]), 0)
            ELSE IF spans # {}
            THEN LET span == CHOOSE p \in spans : TRUE
                 IN  /\ ~out.raised
                     /\ out.value = Decimal(SubSeq(arg, span[1], span[2]), 0)
            ELSE out.raised

\* "/event/7/event/12/": the first segment, 7.
C13_Witness ==
    /\ fn = "parse_event_id"
    /\ out.done
    /\ arg = <<"/", "e", "v", "e", "n", "t", "/", "7",
               "/", "e", "v", "e", "n", "t", "/", "1", "2", "/">>
    /\ ~out.raised
    /\ out.value = 7

\* " 07 ": digits only once trimmed, 7.
C13_WitnessDigits ==
    /\ fn = "parse_event_id"
    /\ out.done
    /\ arg = <<" ", "0", "7", " ">>
    /\ ~out.raised
    /\ out.value = 7

\* "/event/7": no closing slash, an error.
C13_WitnessRaised ==
    /\ fn = "parse_event_id"
    /\ out.done
    /\ arg = <<"/", "e", "v", "e", "n", "t", "/", "7">>
    /\ out.raised

\* C14: first_nonempty returns, trimmed, the first of its candidates that is
\* a str with a character that is no whitespace, passing over None, other
\* non-strings, empty and whitespace-only strings; and the empty string
\* when no candidate is one.
C14_FirstNonempty ==
    (fn = "first_nonempty" /\ out.done) =>
        LET good == {i \in DOMAIN arg : Usable(arg[i])}
        IN  /\ ~out.raised
            /\ IF good = {} THEN out.value = <<>>
               ELSE LET i == CHOOSE g \in good : \A h \in good : g <= h
                    IN  /\ out.value = Trimmed(arg[i].v)
                        /\ out.value # <<>>
                        /\ ~IsSpace(out.value[1])
                        /\ ~IsSpace(out.value[Len(out.value)])

\* The candidates "", "   ", None, " Y\t": "Y".
C14_Witness ==
    /\ fn = "first_nonempty"
    /\ out.done
    /\ Len(arg) = 4
    /\ arg[1].t = "str" /\ arg[1].v = <<>>
    /\ arg[2].t = "str" /\ arg[2].v = <<" ", " ", " ">>
    /\ arg[3].t = "None"
    /\ arg[4].t = "str" /\ arg[4].v = <<" ", "Y", "\t">>
    /\ out.value = <<"Y">>

\* No candidate is a str with content: the empty string.
C14_WitnessNone ==
    /\ fn = "first_nonempty"
    /\ out.done
    /\ Len(arg) = 3
    /\ arg[1].t = "int"
    /\ arg[2].t = "None"
    /\ arg[3].t = "str" /\ arg[3].v = <<" ", " ", " ">>
    /\ out.value = <<>>

\* The reference names no event: it has no /event/<digits>/ segment and is
\* not digits between whitespace.
Malformed(s) == Segments(s) = {} /\ DigitSpans(s) = {}

\* C15: with a malformed event reference run raises the ValueError of
\* parse_event_id before any network call: no get_json call is made, no
\* request is sent and run returns no exit code.
C15_MalformedAbortsBeforeNetwork ==
    Malformed(event_ref) =>
        /\ pc \in {"start", "raised"}
        /\ pc = "raised" => exception = "ValueError"
        /\ gj.status = "idle"
        /\ gj.attempt = 0
        /\ requested = {}
        /\ public_calls = 0
        /\ session = <<>>
        /\ exit_code = -1

\* run has raised on the reference "event/64".
C15_Witness ==
    /\ Malformed(event_ref)
    /\ event_ref = <<"e", "v", "e", "n", "t", "/", "6", "4">>
    /\ pc = "raised"
    /\ exception = "ValueError"
    /\ requested = {}

\* A generator is running or has just ended.
InIter == pc \in {"iter_fetch", "iter_yield", "iter_done"}

\* C16: a generator asks for the pages 1, 2, 3, ... in turn, each once,
\* whatever an earlier generator did; it sleeps 0.5 once between two page
\* fetches, each sleep after a page of at least 20 matches, none before
\* the first fetch and none after the page that ends it.
C16_PagesInTurnOneSleepBetween ==
    InIter =>
        /\ Len(it.requested) >= 1
        /\ \A i \in 1..Len(it.requested) : it.requested[i] = i
        /\ it.page = Len(it.requested)
        /\ pc = "iter_fetch" =>
              /\ gj.url = BASE_SCHEDULE
              /\ gj.params.page = it.page
              /\ gj.params.division_id = it.division_id
        /\ Len(it.slept) = Len(it.requested) - 1
        /\ \A i \in 1..Len(it.slept) :
              /\ it.slept[i] = 500
              /\ i <= Len(received)
              /\ Len(received[i]) >= 20
        /\ Len(received) <= Len(it.requested)
        /\ pc = "iter_done" =>
              /\ Len(received) = Len(it.requested)
              /\ Len(received[Len(received)]) < 20

\* The generator of the second division asked for pages 1 and 2 and slept
\* once, after the generator of the first division had asked for page 2.
C16_Witness ==
    /\ pc = "iter_done"
    /\ it.division_index = 2
    /\ it.requested = <<1, 2>>
    /\ it.slept = <<500>>
    /\ LET rows == RowLines
       IN  \E k \in 1..Len(rows) : rows[k].src = <<divisions[1].id, 2, 1>>

\* The match has a nested team dict.
HasNestedTeam == TeamKey \in DOMAIN arg.v /\ arg.v[TeamKey].t = "dict"

\* C17 (as claimed): when the nested team has no usable name (absent,
\* empty, whitespace-only or no string) and a team_name that is a string
\* with content, extract_home and extract_away return that team_name,
\* trimmed, and not a flat key.
C17_TeamNameFallback ==
    (/\ TeamApplied
     /\ HasNestedTeam
     /\ ~Usable(NestedValue("name"))
     /\ Usable(NestedValue("team_name")))
    => out.value = Trimmed(NestedValue("team_name").v)

\* The part of C17 the code keeps: the fallback for a name that is absent
\* or false to Python (None, "", 0).
C17_FallbackForFalsyName ==
    (/\ TeamApplied
     /\ HasNestedTeam
     /\ ~Truthy(NestedValue("name"))
     /\ Usable(NestedValue("team_name")))
    => out.value = Trimmed(NestedValue("team_name").v)

\* run is over: it has returned an exit code or raised.
Terminated == pc \in {"exit", "raised"}

\* C18: with an upstream that in the end sends every division a page that
\* is short, empty or failed, run ends, and with exit code 0 once the
\* pagination has begun (nothing is raised from there on); the generator
\* stops on a page of fewer than 20 matches and on nothing else: after a
\* page of 20 it asks for the next page, whatever the page number.
C18_TerminatesWithoutPageCap ==
    /\ <>Terminated
    /\ [][InIter => (InIter' \/ (pc' = "exit" /\ exit_code' = 0))]_vars
    /\ [][(pc = "iter_yield" /\ it.idx > Len(it.matches)) =>
            IF Len(it.matches) >= 20
            THEN /\ pc' = "iter_fetch"
                 /\ it'.page = it.page + 1
                 /\ gj'.status = "running"
                 /\ gj'.params.page = it.page + 1
            ELSE pc' = "iter_done"]_vars
    /\ [](pc = "iter_done" => Len(received[Len(received)]) < 20)

\* run returned 0 after a generator that went to a fourth page: three
\* pages of 20 and a page of 7.
C18_Witness ==
    /\ pc = "exit"
    /\ exit_code = 0
    /\ ReceivedSizes = <<20, 20, 20, 7>>
    /\ it.page = 4

\* C19: the retry state belongs to one get_json call.  Whatever the calls
\* before it did, a call starts with attempt 0, delay 1.5 and no sleep
\* behind it, its first sleep lasts 1.5, and it gives up on retryable
\* failures only after 3 attempts and 2 sleeps of its own.
C19_RetryStatePerCall ==
    /\ (gj.status = "running" /\ gj.last.kind = "none") =>
          /\ gj.attempt = 0
          /\ gj.delay = 1500
          /\ gj.slept = <<>>
    /\ gj.slept # <<>> => gj.slept[1] = 1500
    /\ gj.status = "running" => (gj.attempt < 3 /\ Len(gj.slept) = gj.attempt)
    /\ (GaveUp /\ RetryableSeen) => (gj.attempt = 3 /\ Len(gj.slept) = 2)

\* After the call of get_divisions had slept, the call for the first page
\* of the first division still had its 3 attempts and slept 1.5 then 2.25.
C19_Witness ==
    /\ retried_before
    /\ gj.url = BASE_SCHEDULE
    /\ gj.params.page = 1
    /\ gj.attempt = 3
    /\ gj.slept = <<1500, 2250>>
    /\ gj.status = "returned"

\* A call starts afresh after the call of get_divisions had slept.
C19_WitnessFreshStart ==
    /\ retried_before
    /\ gj.status = "running"
    /\ gj.last.kind = "none"
    /\ gj.attempt = 0
    /\ gj.delay = 1500

\* C20: the file is opened and the header written only once the token
\* check has passed and get_divisions has given a division: when run raises
\* on the reference or returns 1 or 2 the file is as it was; and a file
\* run has written starts with the header, all other lines being rows.
C20_FileOpenedAfterChecks ==
    /\ (\/ pc \in {"start", "get_divisions"}
        \/ exception = "ValueError"
        \/ exit_code \in {1, 2})
       => (out_file.state = "untouched" /\ out_file.lines = OldFile.lines)
    /\ out_file.state # "untouched" =>
          /\ session # <<>>
          /\ divisions # <<>>
          /\ Len(out_file.lines) >= 1
          /\ out_file.lines[1].kind = "header"
          /\ out_file.lines[1].fields = fieldnames
          /\ \A i \in 2..Len(out_file.lines) : out_file.lines[i].kind = "row"
    /\ rows_written > 0 => out_file.state # "untouched"

\* run returned 1 and the old file is still there.
C20_Witness ==
    /\ pc = "exit"
    /\ exit_code = 1
    /\ out_file.state = "untouched"
    /\ out_file.lines = <<[kind |-> "old"]>>

\* run returned 0: the header, then 3 rows.
C20_WitnessRows ==
    /\ pc = "exit"
    /\ exit_code = 0
    /\ out_file.state = "closed"
    /\ Len(out_file.lines) = 4
    /\ out_file.lines[1].kind = "header"
    /\ \A i \in 2..4 : out_file.lines[i].kind = "row"

\* run raised on the reference and the old file is still there.
C20_WitnessMalformed ==
    /\ exception = "ValueError"
    /\ out_file.state = "untouched"
    /\ out_file.lines = <<[kind |-> "old"]>>

=============================================================================
